---------------------------- MODULE Spec2Model ----------------------------
(***************************************************************************)
(* Display presentation of RigelEngine: the viewport geometry functions    *)
(* and the UpscalingBuffer of src/renderer/upscaling_utils.cpp.            *)
(*                                                                         *)
(* Numbers.  The code computes the geometry in IEEE 754 single precision.   *)
(* A float is modelled bit-exactly as a record [m, e] standing for         *)
(* m * 2^e, with m odd (or m = 0, e = 0) and |m| < 2^24; every float       *)
(* operation rounds its exact result to 24 significant bits, ties to       *)
(* even, as the hardware does.  All intermediate integers stay below 2^31. *)
(***************************************************************************)
EXTENDS Integers, Sequences, FiniteSets, TLC

(***************************************************************************)
(* Program constants                                                       *)
(***************************************************************************)
PIXEL_PERFECT_SCALE_X == 5
PIXEL_PERFECT_SCALE_Y == 6

\* data::GameTraits: the logical resolution and the tile size.
viewPortWidthPx == 320
viewPortHeightPx == 200
tileSize == 8

(***************************************************************************)
(* Bounds of the model                                                     *)
(***************************************************************************)
\* The geometry specification enumerates every window 1..MaxWindowWidth by
\* 1..MaxWindowHeight, and the windows of WindowSizes and LargeWindowSizes
\* besides.
MaxWindowWidth == 200
MaxWindowHeight == 150

(***************************************************************************)
(* Integer helpers                                                         *)
(***************************************************************************)
Min(a, b) == IF a <= b THEN a ELSE b

Pow2(k) == 2 ^ k

\* Number of significant bits of n, 0 <= n < 16.
BitLen4(n) ==
  IF n < 4 THEN (IF n < 2 THEN n ELSE 2) ELSE (IF n < 8 THEN 3 ELSE 4)

\* Number of significant bits of n, 0 <= n < 2^31.
RECURSIVE BitLen(_)
BitLen(n) == IF n < 16 THEN BitLen4(n) ELSE 4 + BitLen(n \div 16)

\* Number of trailing zero bits of n, n not a multiple of 16.
TrailingZeros4(n) ==
  IF n % 2 = 1 THEN 0 ELSE IF n % 4 = 2 THEN 1 ELSE IF n % 8 = 4 THEN 2 ELSE 3

\* Number of trailing zero bits of n, 0 < n < 2^31.
RECURSIVE TrailingZeros(_)
TrailingZeros(n) ==
  IF n % 16 = 0 THEN 4 + TrailingZeros(n \div 16) ELSE TrailingZeros4(n)

\* C++ integer division and float-to-int conversion: toward zero.
TruncDiv(a, b) == IF a >= 0 THEN a \div b ELSE -((-a) \div b)

\* n/d rounded to the nearest integer, halves away from zero (d > 0).
RoundDiv(n, d) ==
  IF n >= 0 THEN (2 * n + d) \div (2 * d) ELSE -((2 * (-n) + d) \div (2 * d))

(***************************************************************************)
(* IEEE 754 single precision: the record [m, e] is the float m * 2^e, m    *)
(* odd with |m| < 2^24, or m = 0.  Every operation rounds to nearest, ties *)
(* to even, as the hardware does.                                          *)
(***************************************************************************)
FZero == [m |-> 0, e |-> 0]

\* m * 2^e with k trailing zero bits of m moved to the exponent.
FShift(m, e, k) == [m |-> TruncDiv(m, Pow2(k)), e |-> e + k]

\* The canonical record of m * 2^e.
FCanon(m, e) ==
  IF m = 0 THEN FZero
  ELSE FShift(m, e, TrailingZeros(IF m < 0 THEN -m ELSE m))

\* q * 2^e, one more when the part cut off (r, half of the unit being half)
\* rounds up.
FRounded(q, r, half, e) ==
  FCanon(IF r > half \/ (r = half /\ q % 2 = 1) THEN q + 1 ELSE q, e)

\* n * 2^e with the lowest s bits of n rounded away.
FCut(n, e, s) == FRounded(n \div Pow2(s), n % Pow2(s), Pow2(s - 1), e + s)

\* n * 2^e (0 <= n < 2^31) rounded to 24 significant bits.
FRoundBits(n, e) ==
  IF BitLen(n) <= 24 THEN FCanon(n, e) ELSE FCut(n, e, BitLen(n) - 24)

FNeg(a) == [m |-> -a.m, e |-> a.e]

\* float(n) for an int n, |n| < 2^24: exact.
FromInt(n) == FCanon(n, 0)

\* Long division of (q + r/d) * 2^e, r < d < 2^24: s more quotient bits, at
\* most 7 at a time, until the quotient has 24 significant bits or the
\* division is exact.
RECURSIVE FDivBits(_, _, _, _)
FDivShift(q, r, d, e, s) ==
  FDivBits(q * Pow2(s) + ((r * Pow2(s)) \div d), (r * Pow2(s)) % d, d, e - s)

FDivBits(q, r, d, e) ==
  IF r = 0 \/ BitLen(q) >= 24 THEN FRounded(q, 2 * r, d, e)
  ELSE FDivShift(q, r, d, e, IF q = 0 THEN 7 ELSE Min(7, 24 - BitLen(q)))

\* a / b for a >= 0, b > 0.
FDiv(a, b) ==
  IF a.m = 0 THEN FZero
  ELSE FDivBits(a.m \div b.m, a.m % b.m, b.m, a.e - b.e)

\* (p * 2^24 + low) * 2^e, low < 2^24, rounded to 24 bits; s = BitLen(p).
FMulRounded(p, low, e, s) ==
  IF p = 0 THEN FCanon(low, e)
  ELSE FRounded(p * Pow2(24 - s) + (low \div Pow2(s)),
                low % Pow2(s), Pow2(s - 1), e + s)

\* a * b for a, b >= 0: the product in limbs of 12 bits.
FMul(a, b) ==
  LET ah == a.m \div 4096
      al == a.m % 4096
      bh == b.m \div 4096
      bl == b.m % 4096
      t1 == ah * bl + al * bh + ((al * bl) \div 4096)
      p  == ah * bh + (t1 \div 4096)
  IN  FMulRounded(p, (t1 % 4096) * 4096 + ((al * bl) % 4096), a.e + b.e,
                  BitLen(p))

\* a - b, both with integer parts below 2^24.
FSub(a, b) ==
  IF b.m = 0 THEN a
  ELSE IF a.m = 0 THEN FNeg(b)
  ELSE LET e == Min(a.e, b.e)
           d == a.m * Pow2(a.e - e) - b.m * Pow2(b.e - e)
       IN  IF d >= 0 THEN FRoundBits(d, e) ELSE FNeg(FRoundBits(-d, e))

\* a < b for a, b > 0.
FLess(a, b) ==
  IF a.e + BitLen(a.m) # b.e + BitLen(b.m)
    THEN a.e + BitLen(a.m) < b.e + BitLen(b.m)
    ELSE a.m * Pow2(a.e - Min(a.e, b.e)) < b.m * Pow2(b.e - Min(a.e, b.e))

\* std::min(a, b) for a, b > 0.
FMin(a, b) == IF FLess(b, a) THEN b ELSE a

\* a / 2.0f: exact.
FHalf(a) == IF a.m = 0 THEN FZero ELSE [m |-> a.m, e |-> a.e - 1]

\* int(a): toward zero.
FToInt(a) ==
  IF a.e >= 0 THEN a.m * Pow2(a.e)
  ELSE IF -a.e > 30 THEN 0
  ELSE TruncDiv(a.m, Pow2(-a.e))

\* base::round(a): to the nearest integer, halves away from zero.
round(a) ==
  IF a.e >= 0 THEN a.m * Pow2(a.e)
  ELSE IF -a.e > 25 THEN 0
  ELSE RoundDiv(a.m, Pow2(-a.e))

Vec2(x, y) == [x |-> x, y |-> y]
Size(w, h) == [width |-> w, height |-> h]

\* data::GameTraits::aspectRatio = 4.0f / 3.0f
aspectRatio == FDiv(FromInt(4), FromInt(3))

(***************************************************************************)
(* Geometry / viewport calculator                                          *)
(***************************************************************************)
\* The quantize lambda of determineUsableSize.
quantize(value) == FromInt(FToInt(value) - (FToInt(value) % 8))

determineUsableSize(windowWidth, windowHeight) ==
  LET actualAspectRatioIsWiderThanTarget ==
        FLess(aspectRatio, FDiv(windowWidth, windowHeight))
  IN  IF actualAspectRatioIsWiderThanTarget
        THEN LET evenHeight == quantize(windowHeight)
             IN  Size(FMul(aspectRatio, evenHeight), evenHeight)
        ELSE Size(quantize(windowWidth),
                  quantize(FMul(FDiv(FromInt(1), aspectRatio), windowWidth)))

\* The return statement of determineViewPort, usable being the result of
\* determineUsableSize.
ViewPortInfo(windowWidth, windowHeight, usable) ==
  [mOffset |-> Vec2(FToInt(FHalf(FSub(windowWidth, usable.width))),
                    FToInt(FHalf(FSub(windowHeight, usable.height)))),
   mSize   |-> Size(FToInt(usable.width), FToInt(usable.height)),
   mScale  |-> Vec2(FDiv(usable.width, FromInt(viewPortWidthPx)),
                    FDiv(usable.height, FromInt(viewPortHeightPx)))]

determineViewPort(win) ==
  ViewPortInfo(
    FromInt(win.width), FromInt(win.height),
    determineUsableSize(FromInt(win.width), FromInt(win.height)))

canUseWidescreenMode(win) ==
  FLess(aspectRatio, FDiv(FromInt(win.width), FromInt(win.height)))

\* The return statement of determineWidescreenViewPort.
WidescreenViewPortInfo(windowWidth, maxTilesOnScreen, widthInPixels) ==
  [mWidthTiles |-> maxTilesOnScreen,
   mWidthPx |-> widthInPixels,
   mLeftPaddingPx |-> TruncDiv(windowWidth - widthInPixels, 2)]

\* determineWidescreenViewPort from tileWidthScaled and maxTilesOnScreen on.
widescreenViewPortOfTiles(windowWidth, tileWidthScaled, maxTilesOnScreen) ==
  WidescreenViewPortInfo(
    windowWidth, maxTilesOnScreen,
    Min(round(FMul(FromInt(maxTilesOnScreen), tileWidthScaled)), windowWidth))

\* determineWidescreenViewPort from tileWidthScaled on.
widescreenViewPortOfTileWidth(windowWidth, tileWidthScaled) ==
  widescreenViewPortOfTiles(
    windowWidth, tileWidthScaled,
    FToInt(FDiv(FromInt(windowWidth), tileWidthScaled)))

determineWidescreenViewPort(win) ==
  widescreenViewPortOfTileWidth(
    win.width, FMul(FromInt(tileSize), determineViewPort(win).mScale.x))

determineLowResBufferWidth(win, widescreenModeWanted) ==
  IF widescreenModeWanted /\ canUseWidescreenMode(win)
    THEN LET scale == determineViewPort(win).mScale.x
             fullWidth == determineWidescreenViewPort(win).mWidthPx
         IN  round(FDiv(FromInt(fullWidth), scale))
    ELSE viewPortWidthPx

\* The two's complement of an int, in limbs of 16 bits.
Hi16(v) == IF v >= 0 THEN v \div 65536 ELSE 65535 - ((-(v + 1)) \div 65536)

Lo16(v) == IF v >= 0 THEN v % 65536 ELSE 65535 - ((-(v + 1)) % 65536)

Int32(hi, lo) ==
  IF hi < 32768 THEN hi * 65536 + lo ELSE (hi - 65536) * 65536 + lo

\* a * b in 32 bits, 0 <= b < 2^15: a product beyond the range of int wraps.
IntMul(a, b) ==
  Int32((Hi16(a) * b + ((Lo16(a) * b) \div 65536)) % 65536,
        (Lo16(a) * b) % 65536)

\* The window must be wider than the scaled buffer, not merely as wide.
pixelPerfectScalingFitsStrictly(win, pixelPerfectBufferWidth) ==
  /\ win.width > IntMul(pixelPerfectBufferWidth, PIXEL_PERFECT_SCALE_X)
  /\ win.height > viewPortHeightPx * PIXEL_PERFECT_SCALE_Y

\* The return statement of canUsePixelPerfectScaling.
pixelPerfectScalingFits(win, pixelPerfectBufferWidth) ==
  /\ win.width >= IntMul(pixelPerfectBufferWidth, PIXEL_PERFECT_SCALE_X)
  /\ win.height >= viewPortHeightPx * PIXEL_PERFECT_SCALE_Y

canUsePixelPerfectScaling(win, options) ==
  pixelPerfectScalingFits(
    win, determineLowResBufferWidth(win, options.mWidescreenModeOn))

(***************************************************************************)
(* Windows whose usable width is 0.  The horizontal scale is 0.0f there:   *)
(* determineWidescreenViewPort divides the window width by 0.0f and        *)
(* converts the infinite quotient to int, determineLowResBufferWidth       *)
(* rounds 0.0f / 0.0f.  Both conversions are undefined behaviour; the      *)
(* outcomes are those of the conversion instructions of the target         *)
(* processors (x86: the smallest int; ARM: saturation, 0 for a NaN).       *)
(***************************************************************************)
IntMin == -2147483647 - 1

IntMax == 2147483647

\* int(x) for an infinite x > 0.
IntOfInfinity == {IntMin, IntMax}

\* base::round(x) for a NaN.
IntOfNaN == {IntMin, 0}

\* The values determineWidescreenViewPort can return: for a scale of 0 the
\* tile count is the converted quotient, the product of it with the tile
\* width 0.0f rounds to 0 and the padding is half the window.
determineWidescreenViewPortOutcomes(win) ==
  IF determineViewPort(win).mScale.x.m = 0
    THEN {WidescreenViewPortInfo(win.width, maxTilesOnScreen, 0) :
            maxTilesOnScreen \in IntOfInfinity}
    ELSE {determineWidescreenViewPort(win)}

\* The values determineLowResBufferWidth can return.
determineLowResBufferWidthOutcomes(win, widescreenModeWanted) ==
  IF /\ widescreenModeWanted
     /\ canUseWidescreenMode(win)
     /\ determineViewPort(win).mScale.x.m = 0
    THEN IntOfNaN
    ELSE {determineLowResBufferWidth(win, widescreenModeWanted)}

\* The values canUsePixelPerfectScaling can return.
canUsePixelPerfectScalingOutcomes(win, options) ==
  {pixelPerfectScalingFits(win, pixelPerfectBufferWidth) :
     pixelPerfectBufferWidth \in
       determineLowResBufferWidthOutcomes(win, options.mWidescreenModeOn)}

(***************************************************************************)
(* Inputs                                                                  *)
(***************************************************************************)
\* Window sizes the host may give the renderer: 4:3 too small and just large
\* enough for pixel-perfect scaling, 16:10 below the pixel-perfect size and
\* 16:9 above it.
WindowSizes ==
  {Size(640, 480), Size(1600, 1200), Size(1680, 1050), Size(2560, 1440)}

\* Window sizes of common displays, 4:3 and wider, two portrait ones, and
\* sizes at and around the smallest pixel-perfect size 1600x1200.
DisplayWindowSizes ==
  {Size(800, 600), Size(1024, 768), Size(1280, 720), Size(1280, 800),
   Size(1280, 1024), Size(1366, 768), Size(1440, 900), Size(1599, 1200),
   Size(1600, 1199), Size(1601, 1201), Size(1603, 1203), Size(1920, 1080),
   Size(1920, 1200), Size(2000, 1200), Size(2135, 1200), Size(2560, 1080),
   Size(3440, 1440), Size(3840, 2160), Size(1080, 1920), Size(1200, 1600)}

\* data::UpscalingFilter
UpscalingFilter == {"Bilinear", "SharpBilinear", "PixelPerfect"}

\* data::GameOptions, the fields the upscaling code reads.
GameOptions ==
  [mPerElementUpscalingEnabled : BOOLEAN,
   mWidescreenModeOn : BOOLEAN,
   mUpscalingFilter : UpscalingFilter]

\* Arguments of setAlphaMod (std::uint8_t).
AlphaValues == {128, 255}

(***************************************************************************)
(* The geometry functions are pure: their values for the window sizes of   *)
(* the state machine, which a constant definition computes once.           *)
(***************************************************************************)
viewPortOf ==
  [win \in WindowSizes \cup DisplayWindowSizes |-> determineViewPort(win)]

widescreenViewPortOf ==
  [win \in WindowSizes \cup DisplayWindowSizes |->
     determineWidescreenViewPort(win)]

lowResBufferWidthOf ==
  [win \in WindowSizes \cup DisplayWindowSizes,
   widescreenModeWanted \in BOOLEAN |->
     determineLowResBufferWidth(win, widescreenModeWanted)]

pixelPerfectScalingOf ==
  [win \in WindowSizes \cup DisplayWindowSizes,
   widescreenModeOn \in BOOLEAN |->
     canUsePixelPerfectScaling(win, [mWidescreenModeOn |-> widescreenModeOn])]

(***************************************************************************)
(* Renderer: device state and textures                                     *)
(***************************************************************************)
\* The default framebuffer (the window).
Screen == 0

\* std::nullopt of mSharpBilinearRenderTarget.
NoTexture == 0

\* A render target the host owns and may have bound around a frame.
HostTexture == 1

NoClipRect == [topLeft |-> Vec2(0, 0), size |-> Size(-1, -1)]

Rect(topLeft, size) == [topLeft |-> topLeft, size |-> size]

DefaultState ==
  [renderTarget |-> Screen,
   globalScale |-> Vec2(FromInt(1), FromInt(1)),
   globalTranslation |-> Vec2(0, 0),
   clipRect |-> NoClipRect,
   colorModulation |-> <<255, 255, 255, 255>>]

\* Device states the host's own rendering code leaves behind.
HostStates ==
  {DefaultState,
   [renderTarget |-> HostTexture,
    globalScale |-> Vec2(FromInt(2), FromInt(2)),
    globalTranslation |-> Vec2(8, 16),
    clipRect |-> Rect(Vec2(8, 16), Size(64, 32)),
    colorModulation |-> <<255, 0, 0, 64>>]}

Top(stack) == stack[Len(stack)]

pushState(stack) == Append(stack, Top(stack))

popState(stack) == SubSeq(stack, 1, Len(stack) - 1)

setField(stack, field, value) ==
  [stack EXCEPT ![Len(stack)] = [@ EXCEPT ![field] = value]]

setRenderTarget(stack, id) == setField(stack, "renderTarget", id)

setGlobalScale(stack, scale) == setField(stack, "globalScale", scale)

setGlobalTranslation(stack, offset) ==
  setField(stack, "globalTranslation", offset)

setClipRect(stack, rect) == setField(stack, "clipRect", rect)

setColorModulation(stack, color) == setField(stack, "colorModulation", color)

\* renderer::saveState: the guard's release is popState.
saveState(stack) == pushState(stack)

\* RenderTargetTexture::bind: saves the state and binds the texture.
RenderTargetTexture_bind(stack, id) == setRenderTarget(saveState(stack), id)

\* RenderTargetTexture::bindAndReset: bind, with the drawing state reset.
RenderTargetTexture_bindAndReset(stack, id) ==
  setClipRect(
    setGlobalTranslation(
      setGlobalScale(RenderTargetTexture_bind(stack, id),
                     Vec2(FromInt(1), FromInt(1))),
      Vec2(0, 0)),
    NoClipRect)

\* A new texture name: the smallest one not in use.
newTextureId(tex) ==
  CHOOSE id \in 1..(Cardinality(DOMAIN tex) + 1) :
    id \notin DOMAIN tex /\ \A j \in 1..(id - 1) : j \in DOMAIN tex

\* RenderTargetTexture{pRenderer, width, height}: created with nearest
\* sampling.
createTexture(tex, width, height) ==
  [id \in DOMAIN tex \cup {newTextureId(tex)} |->
     IF id \in DOMAIN tex THEN tex[id]
     ELSE [width |-> width, height |-> height, filtering |-> FALSE]]

\* ~RenderTargetTexture
destroyTexture(tex, id) == [j \in DOMAIN tex \ {id} |-> tex[j]]

setFilteringEnabled(tex, id, enabled) ==
  [tex EXCEPT ![id].filtering = enabled]

\* Texture::render(0, 0): what the draw call samples and the device state it
\* is drawn with.
renderCall(tex, stack, id) ==
  [texture |-> id,
   width |-> tex[id].width,
   height |-> tex[id].height,
   filtering |-> tex[id].filtering,
   target |-> Top(stack).renderTarget,
   scale |-> Top(stack).globalScale,
   translation |-> Top(stack).globalTranslation,
   colorModulation |-> Top(stack).colorModulation]

(***************************************************************************)
(* Render target lifecycle                                                 *)
(***************************************************************************)
\* The textures after the call; the new texture is newTextureId(tex).
createFullscreenRenderTarget(tex, win, options) ==
  IF options.mPerElementUpscalingEnabled
    THEN createTexture(tex, win.width, win.height)
    ELSE createTexture(
           tex,
           lowResBufferWidthOf[win, options.mWidescreenModeOn],
           viewPortHeightPx)

\* std::optional<RenderTargetTexture>::reset
resetOptional(tex, id) ==
  IF id = NoTexture THEN tex ELSE destroyTexture(tex, id)

(***************************************************************************)
(* UpscalingBuffer                                                         *)
(***************************************************************************)
VARIABLES
  windowSize,                  \* Renderer::windowSize()
  mStateStack,                 \* the renderer's state stack, current state last
  textures,                    \* the live textures, by name
  mRenderTarget,               \* name of the main render target
  mSharpBilinearRenderTarget,  \* name of the intermediate target or NoTexture
  mPixelPerfectScaling,
  mAlphaMod,
  pc,                          \* "idle", or "drawing" while bind's guard lives
  hist,                        \* the last operation and what it was given
  frame,                       \* the draw calls of the last present
  query,                       \* the last answer of a geometry function
  shader                       \* a Shader and the OpenGL calls made for it

vars ==
  <<windowSize, mStateStack, textures, mRenderTarget,
    mSharpBilinearRenderTarget, mPixelPerfectScaling, mAlphaMod, pc, hist,
    frame, query, shader>>

NoFrame ==
  [path |-> "none", isWidescreenFrame |-> FALSE,
   perElementUpscaling |-> FALSE, passes |-> <<>>]

NoQuery == [fn |-> "none"]

\* No Shader has been constructed.
NoShader == [state |-> "none"]

\* The members that own textures or that updateConfiguration assigns, and
\* the textures.
This ==
  [textures |-> textures,
   mRenderTarget |-> mRenderTarget,
   mSharpBilinearRenderTarget |-> mSharpBilinearRenderTarget,
   mPixelPerfectScaling |-> mPixelPerfectScaling]

\* The main target resized in place: the texture keeps its name and takes the
\* dimensions of the one created last in tex.
resizeRenderTargetInPlace(this, tex) ==
  [this EXCEPT
     !.textures =
       [id \in DOMAIN this.textures |->
          IF id = this.mRenderTarget THEN tex[newTextureId(this.textures)]
          ELSE this.textures[id]]]

\* mRenderTarget = <the texture created last in tex>: the move assignment
\* destroys the texture the member held.
assignRenderTarget(this, tex) ==
  [this EXCEPT !.textures = destroyTexture(tex, this.mRenderTarget),
               !.mRenderTarget = newTextureId(this.textures)]

\* The member cleared without its texture being destroyed.
forgetSharpBilinearRenderTarget(this) ==
  [this EXCEPT !.mSharpBilinearRenderTarget = NoTexture]

\* mSharpBilinearRenderTarget.reset()
resetSharpBilinearRenderTarget(this) ==
  [this EXCEPT
     !.textures = resetOptional(@, this.mSharpBilinearRenderTarget),
     !.mSharpBilinearRenderTarget = NoTexture]

\* Linear filtering set on the new intermediate target only when the member
\* held none before.
assignSharpBilinearRenderTargetStale(this, width, height) ==
  [this EXCEPT
     !.textures =
       setFilteringEnabled(
         resetOptional(createTexture(@, width, height),
                       this.mSharpBilinearRenderTarget),
         newTextureId(this.textures),
         this.mSharpBilinearRenderTarget = NoTexture),
     !.mSharpBilinearRenderTarget = newTextureId(this.textures)]

\* mSharpBilinearRenderTarget = RenderTargetTexture{width, height}, then
\* setFilteringEnabled(mSharpBilinearRenderTarget->data(), true)
assignSharpBilinearRenderTarget(this, width, height) ==
  [this EXCEPT
     !.textures =
       setFilteringEnabled(
         resetOptional(createTexture(@, width, height),
                       this.mSharpBilinearRenderTarget),
         newTextureId(this.textures), TRUE),
     !.mSharpBilinearRenderTarget = newTextureId(this.textures)]

\* Linear filtering on the main target whenever the filter is not
\* PixelPerfect.
setMainFilteringUnlessPixelPerfect(this, options) ==
  [this EXCEPT
     !.textures =
       setFilteringEnabled(@, this.mRenderTarget,
                           options.mUpscalingFilter # "PixelPerfect")]

\* The last statement of updateConfiguration:
\* setFilteringEnabled(mRenderTarget.data(), filter == Bilinear)
setMainFiltering(this, options) ==
  [this EXCEPT
     !.textures =
       setFilteringEnabled(@, this.mRenderTarget,
                           options.mUpscalingFilter = "Bilinear")]

\* updateFiltering without the fallback: an infeasible pixel-perfect request
\* ends in plain bilinear compositing.
updateFilteringWithoutFallback(this, win, options, pixelPerfectScalingPossible) ==
  LET sharpened ==
        IF options.mUpscalingFilter = "SharpBilinear"
          THEN assignSharpBilinearRenderTarget(
                 this,
                 lowResBufferWidthOf[win, options.mWidescreenModeOn]
                   * PIXEL_PERFECT_SCALE_X,
                 viewPortHeightPx * PIXEL_PERFECT_SCALE_Y)
          ELSE resetSharpBilinearRenderTarget(this)
  IN  setMainFiltering(
        [sharpened EXCEPT
           !.mPixelPerfectScaling =
             options.mUpscalingFilter = "PixelPerfect"
               /\ pixelPerfectScalingPossible],
        options)

\* updateConfiguration after its early return, pixelPerfectScalingPossible
\* being the result of canUsePixelPerfectScaling.
updateFiltering(this, win, options, pixelPerfectScalingPossible) ==
  LET pixelPerfectScalingWanted == options.mUpscalingFilter = "PixelPerfect"
      fallbackToSharpBilinear ==
        pixelPerfectScalingWanted /\ ~pixelPerfectScalingPossible
      sharpened ==
        IF options.mUpscalingFilter = "SharpBilinear"
             \/ fallbackToSharpBilinear
          THEN assignSharpBilinearRenderTarget(
                 this,
                 lowResBufferWidthOf[win, options.mWidescreenModeOn]
                   * PIXEL_PERFECT_SCALE_X,
                 viewPortHeightPx * PIXEL_PERFECT_SCALE_Y)
          ELSE resetSharpBilinearRenderTarget(this)
  IN  setMainFiltering(
        [sharpened EXCEPT
           !.mPixelPerfectScaling =
             pixelPerfectScalingWanted /\ pixelPerfectScalingPossible],
        options)

\* updateConfiguration after the assignment of mRenderTarget.
updateModes(this, win, options) ==
  IF options.mPerElementUpscalingEnabled
    THEN [resetSharpBilinearRenderTarget(this)
            EXCEPT !.mPixelPerfectScaling = FALSE]
    ELSE updateFiltering(
           this, win, options,
           pixelPerfectScalingOf[win, options.mWidescreenModeOn])

\* The members and the textures after UpscalingBuffer::updateConfiguration.
updateConfigurationResult(this, win, options) ==
  updateModes(
    assignRenderTarget(
      this, createFullscreenRenderTarget(this.textures, win, options)),
    win, options)

\* The clip rect placed at the origin instead of at the viewport's offset.
setupPerElementViewportAtOrigin(stack, info) ==
  setClipRect(
    setGlobalTranslation(setGlobalScale(stack, info.mScale), info.mOffset),
    Rect(Vec2(0, 0), info.mSize))

\* The per-element branch of setupRenderingViewport, info being the result
\* of determineViewPort.
setupPerElementViewport(stack, info) ==
  setClipRect(
    setGlobalTranslation(setGlobalScale(stack, info.mScale), info.mOffset),
    Rect(info.mOffset, info.mSize))

setupRenderingViewport(stack, win, perElementUpscaling) ==
  IF perElementUpscaling
    THEN setupPerElementViewport(stack, viewPortOf[win])
    ELSE setClipRect(
           stack, Rect(Vec2(0, 0), Size(viewPortWidthPx, viewPortHeightPx)))

\* The viewport set up without centring: the image in the window's corner.
setUpViewportAtOrigin(stack, win, textureWidth, textureHeight, scale) ==
  setGlobalScale(setGlobalTranslation(stack, Vec2(0, 0)), scale)

\* The lambda setUpViewport of present.
setUpViewport(stack, win, textureWidth, textureHeight, scale) ==
  LET usableWidth == FMul(FromInt(textureWidth), scale.x)
      usableHeight == FMul(FromInt(textureHeight), scale.y)
      offsetX == FHalf(FSub(FromInt(win.width), usableWidth))
      offsetY == FHalf(FSub(FromInt(win.height), usableHeight))
  IN  setGlobalScale(
        setGlobalTranslation(stack, Vec2(FToInt(offsetX), FToInt(offsetY))),
        scale)

\* render(0, 0) of texture id, and the end of the scope of the guard that
\* saved the state: the state stack after it and the draw calls so far.
renderAndRelease(tex, stack, id, passes) ==
  [stack |-> popState(stack),
   passes |-> Append(passes, renderCall(tex, stack, id))]

\* The pre-pass binding the intermediate target without a guard.
presentPrePassUnguarded(tex, stack, main, sharp) ==
  [stack |->
     setGlobalScale(
       setRenderTarget(stack, sharp),
       Vec2(FromInt(PIXEL_PERFECT_SCALE_X), FromInt(PIXEL_PERFECT_SCALE_Y))),
   passes |->
     <<renderCall(
         tex,
         setGlobalScale(
           setRenderTarget(stack, sharp),
           Vec2(FromInt(PIXEL_PERFECT_SCALE_X),
                FromInt(PIXEL_PERFECT_SCALE_Y))),
         main)>>]

\* The sharp bilinear pre-pass of present: the main target drawn into the
\* intermediate one, inside the scope of the guard of its bind.
presentPrePass(tex, stack, main, sharp) ==
  renderAndRelease(
    tex,
    setGlobalScale(
      RenderTargetTexture_bind(stack, sharp),
      Vec2(FromInt(PIXEL_PERFECT_SCALE_X), FromInt(PIXEL_PERFECT_SCALE_Y))),
    main, <<>>)

\* The sharp bilinear branch centring the whole intermediate target, whatever
\* the kind of frame.
presentSharpBilinearViewportWholeWidth(tex, stack, win, sharp, isWidescreenFrame, scale) ==
  setUpViewport(
    stack, win, tex[sharp].width, tex[sharp].height, Vec2(scale, scale))

\* The sharp bilinear branch of the composite of present, scale being the
\* smaller of the two ratios.
presentSharpBilinearViewport(tex, stack, win, sharp, isWidescreenFrame, scale) ==
  setUpViewport(
    stack, win,
    IF isWidescreenFrame THEN tex[sharp].width
    ELSE PIXEL_PERFECT_SCALE_X * viewPortWidthPx,
    tex[sharp].height, Vec2(scale, scale))

\* The last branch of the composite of present, info being the result of
\* determineViewPort.
presentBilinearViewport(stack, win, info, isWidescreenFrame) ==
  IF isWidescreenFrame
    THEN setGlobalTranslation(
           setGlobalScale(stack, info.mScale),
           Vec2(widescreenViewPortOf[win].mLeftPaddingPx, 0))
    ELSE setGlobalTranslation(
           setGlobalScale(stack, info.mScale), info.mOffset)

\* The device state present sets up for its composite draw, in the three
\* paths that composite an off-screen scene.
presentViewport(tex, stack, win, main, sharp, pixelPerfect, isWidescreenFrame) ==
  IF sharp # NoTexture
    THEN presentSharpBilinearViewport(
           tex, stack, win, sharp, isWidescreenFrame,
           FMin(FDiv(FromInt(win.width), FromInt(tex[sharp].width)),
                FDiv(FromInt(win.height), FromInt(tex[sharp].height))))
  ELSE IF pixelPerfect
    THEN setUpViewport(
           stack, win,
           IF isWidescreenFrame THEN tex[main].width ELSE viewPortWidthPx,
           tex[main].height,
           Vec2(FromInt(PIXEL_PERFECT_SCALE_X),
                FromInt(PIXEL_PERFECT_SCALE_Y)))
  ELSE presentBilinearViewport(stack, win, viewPortOf[win], isWidescreenFrame)

\* The composite drawn with the colour modulation the device happens to have.
presentCompositeUnmodulated(tex, pre, win, main, sharp, pixelPerfect, alphaMod, isWidescreenFrame) ==
  renderAndRelease(
    tex,
    presentViewport(
      tex, saveState(pre.stack), win, main, sharp, pixelPerfect,
      isWidescreenFrame),
    IF sharp # NoTexture THEN sharp ELSE main,
    pre.passes)

\* present after the pre-pass, pre being the state stack and the draw calls
\* the pre-pass left.
presentComposite(tex, pre, win, main, sharp, pixelPerfect, alphaMod, isWidescreenFrame) ==
  renderAndRelease(
    tex,
    presentViewport(
      tex,
      setColorModulation(saveState(pre.stack), <<255, 255, 255, alphaMod>>),
      win, main, sharp, pixelPerfect, isWidescreenFrame),
    IF sharp # NoTexture THEN sharp ELSE main,
    pre.passes)

\* UpscalingBuffer::present: the state stack when it returns and the draw
\* calls it made.
presentResult(tex, stack, win, main, sharp, pixelPerfect, alphaMod, isWidescreenFrame, perElementUpscaling) ==
  IF perElementUpscaling
    THEN renderAndRelease(
           tex,
           setColorModulation(saveState(stack), <<255, 255, 255, alphaMod>>),
           main, <<>>)
    ELSE presentComposite(
           tex,
           IF sharp # NoTexture
             THEN presentPrePass(tex, stack, main, sharp)
             ELSE [stack |-> stack, passes |-> <<>>],
           win, main, sharp, pixelPerfect, alphaMod, isWidescreenFrame)

\* The branch of present that drew the frame.
presentPath(sharp, pixelPerfect, perElementUpscaling) ==
  IF perElementUpscaling THEN "PerElement"
  ELSE IF sharp # NoTexture THEN "SharpBilinear"
  ELSE IF pixelPerfect THEN "PixelPerfect"
  ELSE "Bilinear"

(***************************************************************************)
(* The state machine                                                       *)
(***************************************************************************)
\* What the last operation was and what it was given.  options and
\* optionsWindow are those of the last updateConfiguration (before the first
\* one, of the constructor); alphaArg is the last argument of setAlphaMod;
\* cleared is the render target that was bound when the operation called
\* Renderer::clear; deviceBefore is the device state before the bind whose
\* guard lives or was released last, or before the last present or clear.
Record(op, h) ==
  [op |-> op,
   options |-> h.options,
   optionsWindow |-> h.optionsWindow,
   configured |-> h.configured,
   alphaArg |-> h.alphaArg,
   perElement |-> FALSE,
   cleared |-> NoTexture,
   deviceBefore |-> DefaultState]

\* UpscalingBuffer::UpscalingBuffer
Constructed(win, options) ==
  /\ windowSize = win
  /\ mStateStack = <<DefaultState>>
  /\ LET hostOnly == createTexture(<<>>, win.width, win.height)
     IN  /\ mRenderTarget = newTextureId(hostOnly)
         /\ textures = createFullscreenRenderTarget(hostOnly, win, options)
  /\ mSharpBilinearRenderTarget = NoTexture
  /\ mPixelPerfectScaling = FALSE
  /\ mAlphaMod = 0
  /\ pc = "idle"
  /\ hist = Record("construct",
                   [options |-> options, optionsWindow |-> win,
                    configured |-> FALSE, alphaArg |-> -1])
  /\ frame = NoFrame
  /\ query = NoQuery
  /\ shader = NoShader

Init ==
  \E win \in WindowSizes, options \in GameOptions : Constructed(win, options)

\* The members and the textures become those of this.
Assign(this) ==
  /\ textures' = this.textures
  /\ mRenderTarget' = this.mRenderTarget
  /\ mSharpBilinearRenderTarget' = this.mSharpBilinearRenderTarget
  /\ mPixelPerfectScaling' = this.mPixelPerfectScaling

updateConfiguration(options) ==
  /\ pc = "idle"
  /\ Assign(updateConfigurationResult(This, windowSize, options))
  /\ hist' = [Record("updateConfiguration", hist)
                EXCEPT !.options = options,
                       !.optionsWindow = windowSize,
                       !.configured = TRUE]
  /\ frame' = NoFrame
  /\ UNCHANGED <<windowSize, mStateStack, mAlphaMod, pc, query, shader>>

setAlphaMod(alphaMod) ==
  /\ pc = "idle"
  /\ mAlphaMod' = alphaMod
  /\ hist' = [Record("setAlphaMod", hist) EXCEPT !.alphaArg = alphaMod]
  /\ frame' = NoFrame
  /\ UNCHANGED <<windowSize, mStateStack, textures, mRenderTarget,
                 mSharpBilinearRenderTarget, mPixelPerfectScaling, pc, query,
                 shader>>

\* bindAndClear keeping the guard to itself: the guard is released when the
\* function returns, before the caller draws.
clearAndSetUpReleased(saved, perElementUpscaling) ==
  /\ mStateStack' =
       Append(
         popState(
           setupRenderingViewport(saved, windowSize, perElementUpscaling)),
         Top(mStateStack))
  /\ hist' = [Record("bindAndClear", hist)
                EXCEPT !.perElement = perElementUpscaling,
                       !.cleared = Top(saved).renderTarget,
                       !.deviceBefore = Top(mStateStack)]

\* bindAndClear from Renderer::clear on, saved being the state stack after
\* mRenderTarget.bind().
clearAndSetUp(saved, perElementUpscaling) ==
  /\ mStateStack' =
       setupRenderingViewport(saved, windowSize, perElementUpscaling)
  /\ hist' = [Record("bindAndClear", hist)
                EXCEPT !.perElement = perElementUpscaling,
                       !.cleared = Top(saved).renderTarget,
                       !.deviceBefore = Top(mStateStack)]

\* UpscalingBuffer::bindAndClear (bind in the header): the returned guard
\* lives until releaseGuard.
bindAndClear(perElementUpscaling) ==
  /\ pc = "idle"
  /\ clearAndSetUp(RenderTargetTexture_bind(mStateStack, mRenderTarget),
                   perElementUpscaling)
  /\ pc' = "drawing"
  /\ frame' = NoFrame
  /\ UNCHANGED <<windowSize, textures, mRenderTarget,
                 mSharpBilinearRenderTarget, mPixelPerfectScaling, mAlphaMod,
                 query, shader>>

\* The caller's scene drawing between bind and the release of the guard
\* leaves the device state as it likes.
hostDraw(state) ==
  /\ pc = "drawing"
  /\ state # Top(mStateStack)
  /\ mStateStack' = [mStateStack EXCEPT ![Len(mStateStack)] = state]
  /\ hist' = [Record("host", hist)
                EXCEPT !.deviceBefore = hist.deviceBefore]
  /\ frame' = NoFrame
  /\ UNCHANGED <<windowSize, textures, mRenderTarget,
                 mSharpBilinearRenderTarget, mPixelPerfectScaling, mAlphaMod,
                 pc, query, shader>>

\* The guard bind returned goes out of scope: at the end of the caller's
\* scope (normally or by an early return), or while an exception of the
\* drawing code unwinds.
releaseGuard(exitPath) ==
  /\ pc = "drawing"
  /\ mStateStack' = popState(mStateStack)
  /\ pc' = "idle"
  /\ hist' = [Record(exitPath, hist)
                EXCEPT !.deviceBefore = hist.deviceBefore]
  /\ frame' = NoFrame
  /\ UNCHANGED <<windowSize, textures, mRenderTarget,
                 mSharpBilinearRenderTarget, mPixelPerfectScaling, mAlphaMod,
                 query, shader>>

ExitPaths == {"release", "releaseOnException"}

\* UpscalingBuffer::clear from Renderer::clear on, saved being the state
\* stack after mRenderTarget.bindAndReset(); the guard is released when the
\* function returns.
clearAndRelease(saved) ==
  /\ mStateStack' = popState(saved)
  /\ hist' = [Record("clear", hist)
                EXCEPT !.cleared = Top(saved).renderTarget,
                       !.deviceBefore = Top(mStateStack)]

\* UpscalingBuffer::clear
clear ==
  /\ pc = "idle"
  /\ hist.op # "clear"
  /\ clearAndRelease(
       RenderTargetTexture_bindAndReset(mStateStack, mRenderTarget))
  /\ frame' = NoFrame
  /\ UNCHANGED <<windowSize, textures, mRenderTarget,
                 mSharpBilinearRenderTarget, mPixelPerfectScaling, mAlphaMod,
                 pc, query, shader>>

\* present returns: res is the state stack it leaves and the draw calls it
\* made.
presented(res, isWidescreenFrame, perElementUpscaling) ==
  /\ mStateStack' = res.stack
  /\ frame' = [path |-> presentPath(mSharpBilinearRenderTarget,
                                    mPixelPerfectScaling,
                                    perElementUpscaling),
               isWidescreenFrame |-> isWidescreenFrame,
               perElementUpscaling |-> perElementUpscaling,
               passes |-> res.passes]

present(isWidescreenFrame, perElementUpscaling) ==
  /\ pc = "idle"
  /\ presented(
       presentResult(
         textures, mStateStack, windowSize, mRenderTarget,
         mSharpBilinearRenderTarget, mPixelPerfectScaling, mAlphaMod,
         isWidescreenFrame, perElementUpscaling),
       isWidescreenFrame, perElementUpscaling)
  /\ hist' = [Record("present", hist) EXCEPT !.deviceBefore = Top(mStateStack)]
  /\ UNCHANGED <<windowSize, textures, mRenderTarget,
                 mSharpBilinearRenderTarget, mPixelPerfectScaling, mAlphaMod,
                 pc, query, shader>>

\* The user resizes the window.
resizeWindow(size) ==
  /\ pc = "idle"
  /\ size # windowSize
  /\ windowSize' = size
  /\ hist' = Record("host", hist)
  /\ frame' = NoFrame
  /\ UNCHANGED <<mStateStack, textures, mRenderTarget,
                 mSharpBilinearRenderTarget, mPixelPerfectScaling, mAlphaMod,
                 pc, query, shader>>

\* Rendering code of the host outside the frame leaves another device state.
hostSetState(state) ==
  /\ pc = "idle"
  /\ state # Top(mStateStack)
  /\ mStateStack' = [mStateStack EXCEPT ![Len(mStateStack)] = state]
  /\ hist' = Record("host", hist)
  /\ frame' = NoFrame
  /\ UNCHANGED <<windowSize, textures, mRenderTarget,
                 mSharpBilinearRenderTarget, mPixelPerfectScaling, mAlphaMod,
                 pc, query, shader>>

Next ==
  \/ \E options \in GameOptions : updateConfiguration(options)
  \/ \E alphaMod \in AlphaValues : setAlphaMod(alphaMod)
  \/ \E perElementUpscaling \in BOOLEAN : bindAndClear(perElementUpscaling)
  \/ \E state \in HostStates : hostDraw(state)
  \/ \E exitPath \in ExitPaths : releaseGuard(exitPath)
  \/ clear
  \/ \E isWidescreenFrame \in BOOLEAN, perElementUpscaling \in BOOLEAN :
       present(isWidescreenFrame, perElementUpscaling)
  \/ \E size \in WindowSizes : resizeWindow(size)
  \/ \E state \in HostStates : hostSetState(state)

Spec == Init /\ [][Next]_vars

(***************************************************************************)
(* Mode selection, render targets, binding and compositing                 *)
(***************************************************************************)
\* The compositing path the configuration c selects at window size win, by
\* the table of the specification.
SelectedMode(c, win) ==
  IF c.mPerElementUpscalingEnabled THEN "PerElement"
  ELSE IF c.mUpscalingFilter = "PixelPerfect"
            /\ pixelPerfectScalingOf[win, c.mWidescreenModeOn]
    THEN "PixelPerfect"
  ELSE IF c.mUpscalingFilter = "SharpBilinear"
            \/ (c.mUpscalingFilter = "PixelPerfect"
                  /\ ~pixelPerfectScalingOf[win, c.mWidescreenModeOn])
    THEN "SharpBilinear"
  ELSE "Bilinear"

\* C1: after updateConfiguration(c) at window size W, present called with
\* c's per-element flag composites per element if the flag is set; otherwise
\* pixel-perfect iff c asks for it and canUsePixelPerfectScaling(W, c) holds,
\* sharp-bilinear iff c asks for it or asks for pixel-perfect in vain, and
\* bilinear iff c asks for it.  With widescreen off a pixel-perfect request
\* gives SharpBilinear at 640x480 and PixelPerfect at 1600x1200.
C1_ModeSelection ==
  (hist.op = "present" /\ hist.configured
     /\ frame.perElementUpscaling = hist.options.mPerElementUpscalingEnabled)
  => LET c == hist.options
         possible == canUsePixelPerfectScaling(hist.optionsWindow, c)
     IN  IF c.mPerElementUpscalingEnabled
           THEN frame.path = "PerElement"
           ELSE /\ (frame.path = "PixelPerfect")
                     <=> (c.mUpscalingFilter = "PixelPerfect" /\ possible)
                /\ (frame.path = "SharpBilinear")
                     <=> (c.mUpscalingFilter = "SharpBilinear"
                            \/ (c.mUpscalingFilter = "PixelPerfect"
                                  /\ ~possible))
                /\ (frame.path = "Bilinear")
                     <=> (c.mUpscalingFilter = "Bilinear")
                /\ (c.mUpscalingFilter = "PixelPerfect"
                      /\ ~c.mWidescreenModeOn
                      /\ hist.optionsWindow = Size(640, 480))
                     => frame.path = "SharpBilinear"
                /\ (c.mUpscalingFilter = "PixelPerfect"
                      /\ ~c.mWidescreenModeOn
                      /\ hist.optionsWindow = Size(1600, 1200))
                     => frame.path = "PixelPerfect"

C1_Witness ==
  /\ hist.op = "present"
  /\ hist.configured
  /\ hist.options =
       [mPerElementUpscalingEnabled |-> FALSE, mWidescreenModeOn |-> FALSE,
        mUpscalingFilter |-> "PixelPerfect"]
  /\ hist.optionsWindow = Size(640, 480)
  /\ ~frame.perElementUpscaling
  /\ frame.path = "SharpBilinear"

\* What a caller can tell of the object this: the selected mode, the
\* dimensions and the filtering flag of each target (not their names).
Observed(this, perElementUpscaling) ==
  [mode |-> presentPath(this.mSharpBilinearRenderTarget,
                        this.mPixelPerfectScaling, perElementUpscaling),
   main |-> this.textures[this.mRenderTarget],
   intermediate |->
     IF this.mSharpBilinearRenderTarget = NoTexture THEN "none"
     ELSE this.textures[this.mSharpBilinearRenderTarget]]

\* A draw call without the names of the textures.
Unnamed(pass) ==
  [width |-> pass.width, height |-> pass.height,
   filtering |-> pass.filtering, scale |-> pass.scale,
   translation |-> pass.translation,
   colorModulation |-> pass.colorModulation]

\* What present draws for the object this: per draw call the source's
\* dimensions and filter state, the global scale and the translation.
ObservedPresent(this, isWidescreenFrame, perElementUpscaling) ==
  LET passes == presentResult(
                  this.textures, mStateStack, windowSize, this.mRenderTarget,
                  this.mSharpBilinearRenderTarget, this.mPixelPerfectScaling,
                  mAlphaMod, isWidescreenFrame, perElementUpscaling).passes
  IN  [i \in DOMAIN passes |-> Unnamed(passes[i])]

\* C2: updateConfiguration is idempotent.  In every state a call of
\* updateConfiguration(c) leaves, with the window unchanged, a second call
\* with the same c gives the same mode, the same dimensions and filtering
\* flag of the main and of the intermediate target, and a present that draws
\* with the same scale, translation and filter state; no call changes
\* alphaMod.
C2_StateAfterSecondCall ==
  (hist.op = "updateConfiguration" /\ windowSize = hist.optionsWindow)
  => LET again == updateConfigurationResult(This, windowSize, hist.options)
     IN  \A perElementUpscaling \in BOOLEAN :
           /\ Observed(again, perElementUpscaling)
                = Observed(This, perElementUpscaling)
           /\ \A isWidescreenFrame \in BOOLEAN :
                ObservedPresent(again, isWidescreenFrame,
                                perElementUpscaling)
                  = ObservedPresent(This, isWidescreenFrame,
                                    perElementUpscaling)

C2_AlphaModKept == hist'.op = "updateConfiguration" => mAlphaMod' = mAlphaMod

C2_Idempotent == [](C2_StateAfterSecondCall) /\ [][C2_AlphaModKept]_vars

C2_Witness ==
  /\ hist.op = "updateConfiguration"
  /\ windowSize = Size(1680, 1050)
  /\ hist.options.mWidescreenModeOn
  /\ hist.options.mUpscalingFilter = "PixelPerfect"
  /\ mSharpBilinearRenderTarget # NoTexture
  /\ mAlphaMod = 128

\* The dimensions of the main target for configuration c at window win: the
\* window's when c enables per-element upscaling, otherwise 200 high and
\* determineLowResBufferWidth wide, which is 320 unless c turns widescreen
\* on and the window can use it.
MainTargetSized(target, c, win) ==
  IF c.mPerElementUpscalingEnabled
    THEN target.width = win.width /\ target.height = win.height
    ELSE /\ target.height = 200
         /\ target.width = lowResBufferWidthOf[win, c.mWidescreenModeOn]
         /\ ~(c.mWidescreenModeOn /\ canUseWidescreenMode(win))
              => target.width = 320

\* A call of updateConfiguration: the main target is a texture that did not
\* exist before, and the texture that was the main target is gone (its name
\* is free, or names the intermediate target the call created after it).
C3_Replaced ==
  hist'.op = "updateConfiguration"
  => /\ mRenderTarget' \in DOMAIN textures'
     /\ mRenderTarget' \notin DOMAIN textures
     /\ DOMAIN textures' \ {HostTexture, mSharpBilinearRenderTarget'}
          = {mRenderTarget'}
     /\ mRenderTarget \in DOMAIN textures'
          => /\ mSharpBilinearRenderTarget' = mRenderTarget
             /\ mSharpBilinearRenderTarget' # mSharpBilinearRenderTarget

\* C3: every updateConfiguration(c), also with c the configuration before,
\* replaces the main render target by a newly created one and destroys the
\* previous one; after it, and after construction with c, the main target
\* has the window's size when c enables per-element upscaling, and otherwise
\* is 200 high and 320 wide unless c turns widescreen on and
\* canUseWidescreenMode holds.
C3_MainTargetReplaced ==
  /\ [](MainTargetSized(textures[mRenderTarget], hist.options,
                        hist.optionsWindow))
  /\ [][C3_Replaced]_vars

C3_Witness ==
  /\ hist.op = "updateConfiguration"
  /\ hist.options.mWidescreenModeOn
  /\ ~hist.options.mPerElementUpscalingEnabled
  /\ hist.optionsWindow = Size(1680, 1050)
  /\ textures[mRenderTarget] = [width |-> 384, height |-> 200,
                                filtering |-> FALSE]

\* C4: the intermediate target exists iff the mode the last
\* updateConfiguration selected is SharpBilinear, and none exists before the
\* first call; when it exists it is 5 x lowResWidth wide and 6 x 200 high;
\* the engine's textures are exactly the main target and the intermediate
\* target, if any, so a call that selects another mode has destroyed the
\* intermediate target of an earlier call.
C4_IntermediateTarget ==
  /\ mRenderTarget \notin {NoTexture, HostTexture, mSharpBilinearRenderTarget}
  /\ DOMAIN textures \ {HostTexture}
       = {mRenderTarget} \cup ({mSharpBilinearRenderTarget} \ {NoTexture})
  /\ (mSharpBilinearRenderTarget # NoTexture)
       <=> (hist.configured
              /\ SelectedMode(hist.options, hist.optionsWindow)
                   = "SharpBilinear")
  /\ mSharpBilinearRenderTarget # NoTexture
       => /\ textures[mSharpBilinearRenderTarget].width
               = 5 * lowResBufferWidthOf[hist.optionsWindow,
                                         hist.options.mWidescreenModeOn]
          /\ textures[mSharpBilinearRenderTarget].height = 6 * 200

C4_Witness ==
  /\ hist.op = "updateConfiguration"
  /\ hist.optionsWindow = Size(1680, 1050)
  /\ hist.options.mWidescreenModeOn
  /\ mSharpBilinearRenderTarget # NoTexture
  /\ textures[mSharpBilinearRenderTarget].width = 1920
  /\ textures[mSharpBilinearRenderTarget].height = 1200

\* C5: after updateConfiguration(c) linear filtering is enabled on the main
\* target in Bilinear mode; the main target samples nearest in PixelPerfect
\* mode and in SharpBilinear mode, requested or reached by fallback; and
\* whenever the intermediate target exists linear filtering is enabled on it
\* and not on the main target.
C5_FilteringFlags ==
  hist.configured
  => LET mode == SelectedMode(hist.options, hist.optionsWindow)
     IN  /\ mode = "Bilinear" => textures[mRenderTarget].filtering
         /\ mode \in {"PixelPerfect", "SharpBilinear"}
              => ~textures[mRenderTarget].filtering
         /\ mSharpBilinearRenderTarget # NoTexture
              => /\ textures[mSharpBilinearRenderTarget].filtering
                 /\ ~textures[mRenderTarget].filtering

C5_Witness ==
  /\ hist.configured
  /\ hist.options.mUpscalingFilter = "PixelPerfect"
  /\ hist.optionsWindow = Size(640, 480)
  /\ mSharpBilinearRenderTarget # NoTexture
  /\ textures[mSharpBilinearRenderTarget].filtering
  /\ ~textures[mRenderTarget].filtering

\* C6: bind makes the main render target the current draw destination and
\* clears it; after the guard is released, on either exit path and whatever
\* was drawn, the draw destination is the one of before the bind.
C6_BindAndRelease ==
  /\ hist.op = "bindAndClear"
       => /\ Top(mStateStack).renderTarget = mRenderTarget
          /\ hist.cleared = mRenderTarget
  /\ hist.op \in ExitPaths
       => Top(mStateStack).renderTarget = hist.deviceBefore.renderTarget

C6_Witness ==
  /\ hist.op = "releaseOnException"
  /\ hist.deviceBefore.renderTarget = HostTexture
  /\ Top(mStateStack).renderTarget = HostTexture
  /\ Len(mStateStack) = 1

\* C7 as the specification states it: bind with the per-element flag set
\* makes the clip rect the full window, origin (0,0) and the window's size;
\* with the flag clear the rect at (0,0) of size 320x200.
C7_ClipRectFullWindow ==
  hist.op = "bindAndClear"
  => Top(mStateStack).clipRect
       = IF hist.perElement THEN Rect(Vec2(0, 0), windowSize)
         ELSE Rect(Vec2(0, 0), Size(320, 200))

\* C7, amended: bind with the per-element flag set makes the clip rect the
\* usable area determineViewPort returns (its offset and size), the global
\* scale its scale and the global translation its offset; with the flag
\* clear the clip rect is the rect at (0,0) of size 320x200.
C7_ClipRectViewPort ==
  hist.op = "bindAndClear"
  => IF hist.perElement
       THEN LET info == determineViewPort(windowSize)
            IN  /\ Top(mStateStack).clipRect = Rect(info.mOffset, info.mSize)
                /\ Top(mStateStack).globalScale = info.mScale
                /\ Top(mStateStack).globalTranslation = info.mOffset
       ELSE Top(mStateStack).clipRect = Rect(Vec2(0, 0), Size(320, 200))

C7_Witness ==
  /\ hist.op = "bindAndClear"
  /\ hist.perElement
  /\ windowSize = Size(1680, 1050)
  /\ Top(mStateStack).clipRect = Rect(Vec2(141, 1), Size(1397, 1048))

\* The composite draw of the last present is modulated by the last argument
\* of setAlphaMod, which is what alphaMod() returns.
C8_Modulated ==
  hist.alphaArg # -1
  => /\ mAlphaMod = hist.alphaArg
     /\ hist.op = "present"
          => frame.passes[Len(frame.passes)].colorModulation
               = <<255, 255, 255, hist.alphaArg>>

\* setAlphaMod leaves the render targets, the mode and the filtering flags;
\* updateConfiguration and bind leave alphaMod.
C8_Frame ==
  /\ hist'.op = "setAlphaMod"
       => UNCHANGED <<textures, mRenderTarget, mSharpBilinearRenderTarget,
                      mPixelPerfectScaling>>
  /\ hist'.op \in {"updateConfiguration", "bindAndClear"}
       => mAlphaMod' = mAlphaMod

\* C8: in every compositing path of present the composite draw has the
\* colour modulation (255,255,255,a), a being the last argument of
\* setAlphaMod; setAlphaMod changes only that value, alphaMod() returns it,
\* and updateConfiguration and bind do not change it.
C8_AlphaMod == [](C8_Modulated) /\ [][C8_Frame]_vars

C8_Witness ==
  /\ hist.op = "present"
  /\ hist.alphaArg = 128
  /\ frame.path = "SharpBilinear"
  /\ Len(frame.passes) = 2
  /\ frame.passes[2].colorModulation = <<255, 255, 255, 128>>
  /\ Top(mStateStack).colorModulation = <<255, 0, 0, 64>>

\* C9: present leaves the device state: the global scale, the global
\* translation, the colour modulation, the clip rect and the draw
\* destination after it are those of before, in every compositing path.
C9_PresentRestoresDevice ==
  hist.op = "present"
  => /\ Len(mStateStack) = 1
     /\ Top(mStateStack) = hist.deviceBefore

C9_Witness ==
  /\ hist.op = "present"
  /\ frame.path = "SharpBilinear"
  /\ Len(frame.passes) = 2
  /\ frame.passes[1].target = mSharpBilinearRenderTarget
  /\ Top(mStateStack).renderTarget = HostTexture
  /\ hist.deviceBefore.renderTarget = HostTexture

(***************************************************************************)
(* The geometry functions on their own                                     *)
(***************************************************************************)
\* A window wider than 4:3 by less than a float division can tell.
LargeWindowSizes == {Size(13421781, 10066335)}

\* The 16:9 window of the specification's viewport example.
ExampleWindowSizes == {Size(1920, 1080)}

\* Windows at and around the smallest pixel-perfect size 1600x1200, wider
\* windows of that height, and two 16:10 windows across which a whole number
\* of tiles fits.
ThresholdWindowSizes ==
  {Size(w, h) : w \in {1599, 1600, 1601, 1920, 2000},
                h \in {1199, 1200, 1201}}
    \cup {Size(640, 400), Size(1280, 800)}

GeometryWindows ==
  {Size(w, h) : w \in 1..MaxWindowWidth, h \in 1..MaxWindowHeight}
    \cup WindowSizes \cup LargeWindowSizes \cup ExampleWindowSizes
    \cup ThresholdWindowSizes

InitGeometry ==
  \E win \in GeometryWindows :
    Constructed(win, [mPerElementUpscalingEnabled |-> TRUE,
                      mWidescreenModeOn |-> FALSE,
                      mUpscalingFilter |-> "Bilinear"])

queryViewPort ==
  /\ query.fn # "determineViewPort"
  /\ query' = [fn |-> "determineViewPort",
               result |-> determineViewPort(windowSize)]
  /\ UNCHANGED <<windowSize, mStateStack, textures, mRenderTarget,
                 mSharpBilinearRenderTarget, mPixelPerfectScaling, mAlphaMod,
                 pc, hist, frame,
                 shader>>

NextGeometry ==
  \/ queryViewPort

SpecGeometry == InitGeometry /\ [][NextGeometry]_vars

C11_ScalePositive ==
  query.fn = "determineViewPort"
  => /\ query.result.mScale.x.m > 0
     /\ query.result.mScale.y.m > 0

\* The viewport of the binding-dimension rule in integer arithmetic: the
\* usable height, three times the usable width (the width is a whole number
\* of thirds), the size and the offset.
RuleViewPort(W, H) ==
  LET wider == 3 * W > 4 * H
      usableHeight ==
        IF wider THEN H - (H % 8)
        ELSE ((3 * W) \div 4) - (((3 * W) \div 4) % 8)
      usableWidth3 == IF wider THEN 4 * usableHeight ELSE 3 * (W - (W % 8))
  IN  [mOffset |-> Vec2(TruncDiv(3 * W - usableWidth3, 6),
                        TruncDiv(H - usableHeight, 2)),
       mSize |-> Size(usableWidth3 \div 3, usableHeight),
       usableWidth3 |-> usableWidth3]

\* The float scale is usable / logical to within a pixel of the usable size.
ScaleOfUsable(scale, usable, logical) ==
  /\ round(FMul(scale, FromInt(logical))) >= usable - 1
  /\ round(FMul(scale, FromInt(logical))) <= usable + 1

C13_SizeQuantized ==
  query.fn = "determineViewPort"
  => /\ query.result.mSize.width % 8 = 0
     /\ query.result.mSize.height % 8 = 0

(***************************************************************************)
(* The widescreen and pixel-perfect queries on their own                   *)
(***************************************************************************)
queryCanUseWidescreenMode ==
  /\ query = NoQuery
  /\ query' = [fn |-> "canUseWidescreenMode",
               result |-> canUseWidescreenMode(windowSize)]
  /\ UNCHANGED <<windowSize, mStateStack, textures, mRenderTarget,
                 mSharpBilinearRenderTarget, mPixelPerfectScaling, mAlphaMod,
                 pc, hist, frame,
                 shader>>

queryCanUsePixelPerfectScaling(widescreenModeOn) ==
  /\ query = NoQuery
  /\ \E result \in canUsePixelPerfectScalingOutcomes(
                      windowSize, [mWidescreenModeOn |-> widescreenModeOn]) :
       query' = [fn |-> "canUsePixelPerfectScaling",
                 widescreenModeOn |-> widescreenModeOn,
                 result |-> result]
  /\ UNCHANGED <<windowSize, mStateStack, textures, mRenderTarget,
                 mSharpBilinearRenderTarget, mPixelPerfectScaling, mAlphaMod,
                 pc, hist, frame,
                 shader>>

queryWidescreenViewPort ==
  /\ query = NoQuery
  /\ \E result \in determineWidescreenViewPortOutcomes(windowSize) :
       query' = [fn |-> "determineWidescreenViewPort", result |-> result]
  /\ UNCHANGED <<windowSize, mStateStack, textures, mRenderTarget,
                 mSharpBilinearRenderTarget, mPixelPerfectScaling, mAlphaMod,
                 pc, hist, frame,
                 shader>>

NextWidescreen ==
  \/ queryCanUseWidescreenMode
  \/ \E widescreenModeOn \in BOOLEAN :
       queryCanUsePixelPerfectScaling(widescreenModeOn)
  \/ queryWidescreenViewPort

SpecWidescreen == InitGeometry /\ [][NextWidescreen]_vars

C15_PixelPerfectFeasible ==
  query.fn = "canUsePixelPerfectScaling"
  => /\ query.result
          <=> (/\ windowSize.height >= 6 * 200
               /\ windowSize.width
                    >= 5 * determineLowResBufferWidth(
                             windowSize, query.widescreenModeOn))
     /\ 3 * windowSize.width <= 4 * windowSize.height
          => (query.result
                <=> (windowSize.width >= 1600 /\ windowSize.height >= 1200))

C15_Witness ==
  /\ query.fn = "canUsePixelPerfectScaling"
  /\ query.widescreenModeOn
  /\ windowSize = Size(1600, 1200)
  /\ query.result

asVec(size) == Vec2(size.width, size.height)
asSize(vec) == Size(vec.x, vec.y)

\* scaleVec with the products cut off instead of rounded.
scaleVecTruncating(vec, scale) ==
  Vec2(FToInt(FMul(FromInt(vec.x), scale.x)),
       FToInt(FMul(FromInt(vec.y), scale.y)))

scaleVec(vec, scale) ==
  Vec2(round(FMul(FromInt(vec.x), scale.x)),
       round(FMul(FromInt(vec.y), scale.y)))

scaleSize(size, scale) == asSize(scaleVec(asVec(size), scale))

\* Largest component of the vectors and sizes that are scaled.
MaxCoordinate == 12

\* The scale components: below 1/2, from 1/2 to 1, and the upscaling
\* factors of a 1920x1080 window (4.5 and 5.4) among those above 1.
ScaleComponents ==
  {FDiv(FromInt(f[1]), FromInt(f[2])) :
     f \in {<<1, 10>>, <<1, 4>>, <<1, 3>>, <<1, 2>>, <<3, 5>>, <<3, 4>>,
            <<1, 1>>, <<2, 1>>, <<9, 2>>, <<27, 5>>}}

Scales == {Vec2(x, y) : x \in ScaleComponents, y \in ScaleComponents}

Coordinates == 1..MaxCoordinate

\* {1/s.x, 1/s.y} in single precision.
inverseScale(scale) ==
  Vec2(FDiv(FromInt(1), scale.x), FDiv(FromInt(1), scale.y))

InitScale ==
  Constructed(Size(1920, 1080), [mPerElementUpscalingEnabled |-> TRUE,
                                 mWidescreenModeOn |-> FALSE,
                                 mUpscalingFilter |-> "Bilinear"])

\* scaleVec(vec, scale), and scaleVec of its result with the inverse scale.
queryScaleVec ==
  /\ query = NoQuery
  /\ \E x \in Coordinates, y \in Coordinates, scale \in Scales :
       query' = [fn |-> "scaleVec", vec |-> Vec2(x, y), scale |-> scale,
                 result |-> scaleVec(Vec2(x, y), scale),
                 back |-> scaleVec(scaleVec(Vec2(x, y), scale),
                                   inverseScale(scale))]
  /\ UNCHANGED <<windowSize, mStateStack, textures, mRenderTarget,
                 mSharpBilinearRenderTarget, mPixelPerfectScaling, mAlphaMod,
                 pc, hist, frame,
                 shader>>

queryScaleSize ==
  /\ query = NoQuery
  /\ \E w \in Coordinates, h \in Coordinates, scale \in Scales :
       query' = [fn |-> "scaleSize", size |-> Size(w, h), scale |-> scale,
                 result |-> scaleSize(Size(w, h), scale)]
  /\ UNCHANGED <<windowSize, mStateStack, textures, mRenderTarget,
                 mSharpBilinearRenderTarget, mPixelPerfectScaling, mAlphaMod,
                 pc, hist, frame,
                 shader>>

NextScale ==
  \/ queryScaleVec
  \/ queryScaleSize

SpecScale == InitScale /\ [][NextScale]_vars

Abs(n) == IF n >= 0 THEN n ELSE -n

FHalfOne == FDiv(FromInt(1), FromInt(2))

sizeofFloat == 4

AttributeDescription(name, valueCount) ==
  [mName |-> name, mValueCount |-> valueCount]

\* ShaderSpec::mAttributeDescs of the shaders that are constructed; the two
\* sources of a ShaderSpec are stood for by what the driver makes of them.
AttributeDescLists ==
  {<<>>,
   <<AttributeDescription("position", 2)>>,
   <<AttributeDescription("pos", 2), AttributeDescription("uv", 2)>>,
   <<AttributeDescription("position", 2),
     AttributeDescription("texCoord", 2),
     AttributeDescription("color", 4)>>}

\* What the driver reports for a compile or a link: the status, the value
\* of GL_INFO_LOG_LENGTH (the terminator counted, 0 without a log) and the
\* log.
GlOutcome(status, infoLogSize, infoLog) ==
  [status |-> status, infoLogSize |-> infoLogSize, infoLog |-> infoLog]

InfoLogTexts == {"0:1(1): error: syntax error"}

GlOutcomes ==
  {GlOutcome(TRUE, 0, "")}
    \cup {GlOutcome(FALSE, 0, ""), GlOutcome(FALSE, 1, "")}
    \cup {GlOutcome(FALSE, Len(log) + 1, log) : log \in InfoLogTexts}

runtime_error(what) == [type |-> "std::runtime_error", what |-> what]

NoError == [type |-> "none", what |-> ""]

\* compileShader that returns the handle whatever the compile status is.
compileShaderUnchecked(type, outcome) ==
  [glCalls |-> <<"glCreateShader(" \o type \o ")", "glShaderSource",
                 "glCompileShader(" \o type \o ")">>,
   error |-> NoError]

\* compileShader: the OpenGL calls made and the exception thrown, if any.
compileShader(type, outcome) ==
  [glCalls |-> <<"glCreateShader(" \o type \o ")", "glShaderSource",
                 "glCompileShader(" \o type \o ")">>,
   error |->
     IF ~outcome.status
       THEN IF outcome.infoLogSize > 0
              THEN runtime_error(
                     "Shader compilation failed:\n\n" \o outcome.infoLog)
              ELSE runtime_error(
                     "Shader compilation failed, but could not get info log")
       ELSE NoError]

\* The glBindAttribLocation calls of the constructor's loop, from index on.
RECURSIVE bindAttribLocations(_, _)
bindAttribLocations(attributeDescs, index) ==
  IF index < Len(attributeDescs)
    THEN <<[index |-> index, name |-> attributeDescs[index + 1].mName]>>
           \o bindAttribLocations(attributeDescs, index + 1)
    ELSE <<>>

\* A Shader, or what is left of one whose constructor threw.
ShaderObject(state, attributeDescs, gl, glCalls, attribLocations, error) ==
  [state |-> state,
   mAttributeDescs |-> attributeDescs,
   mLocationCache |-> <<>>,
   gl |-> gl,
   glCalls |-> glCalls,
   attribLocations |-> attribLocations,
   error |-> error,
   programInUse |-> FALSE,
   attribPointers |-> <<>>,
   uniformQueries |-> <<>>,
   locationCalls |-> <<>>]

\* The part of the constructor after the two stages are compiled.
linkProgram(attributeDescs, gl, glCalls) ==
  LET calls == glCalls \o <<"glAttachShader", "glAttachShader">>
                 \o <<"glLinkProgram">>
      attribLocations == bindAttribLocations(attributeDescs, 0)
  IN  IF ~gl.link.status
        THEN ShaderObject(
               "failed", attributeDescs, gl, calls, attribLocations,
               IF gl.link.infoLogSize > 0
                 THEN runtime_error("Shader program linking failed:\n\n"
                                      \o gl.link.infoLog)
                 ELSE runtime_error("Shader program linking failed, "
                                      \o "but could not get info log"))
        ELSE ShaderObject("constructed", attributeDescs, gl, calls,
                          attribLocations, NoError)

\* Shader::Shader(spec), gl being what the driver reports for the vertex
\* stage, the fragment stage and the link.
ShaderConstructed(attributeDescs, gl) ==
  LET vertexShader == compileShader("GL_VERTEX_SHADER", gl.vertex)
      fragmentShader == compileShader("GL_FRAGMENT_SHADER", gl.fragment)
      created == <<"glCreateProgram">>
  IN  IF vertexShader.error # NoError
        THEN ShaderObject("failed", attributeDescs, gl,
                          created \o vertexShader.glCalls, <<>>,
                          vertexShader.error)
      ELSE IF fragmentShader.error # NoError
        THEN ShaderObject("failed", attributeDescs, gl,
                          created \o vertexShader.glCalls
                            \o fragmentShader.glCalls,
                          <<>>, fragmentShader.error)
      ELSE linkProgram(attributeDescs, gl,
                       created \o vertexShader.glCalls
                         \o fragmentShader.glCalls)

constructShader ==
  /\ shader = NoShader
  /\ \E attributeDescs \in AttributeDescLists,
        vertex \in GlOutcomes, fragment \in GlOutcomes, link \in GlOutcomes :
       shader' = ShaderConstructed(
                   attributeDescs,
                   [vertex |-> vertex, fragment |-> fragment, link |-> link])
  /\ UNCHANGED <<windowSize, mStateStack, textures, mRenderTarget,
                 mSharpBilinearRenderTarget, mPixelPerfectScaling, mAlphaMod,
                 pc, hist, frame, query>>

\* std::accumulate over the value counts of the descriptors from index on.
RECURSIVE totalValueCount(_, _)
totalValueCount(attributeDescs, index) ==
  IF index < Len(attributeDescs)
    THEN attributeDescs[index + 1].mValueCount
           + totalValueCount(attributeDescs, index + 1)
    ELSE 0

\* The offset advanced by the number of values, not by their size.
nextOffsetInValues(nextOffset, valueCount) == nextOffset + valueCount

\* nextOffset += valueCount * sizeof(float)
nextOffsetAfter(nextOffset, valueCount) ==
  nextOffset + valueCount * sizeofFloat

\* The glVertexAttribPointer calls of use()'s loop, from index on.
RECURSIVE vertexAttribPointers(_, _, _, _)
vertexAttribPointers(attributeDescs, index, stride, nextOffset) ==
  IF index < Len(attributeDescs)
    THEN LET valueCount == attributeDescs[index + 1].mValueCount
         IN  <<[index |-> index, size |-> valueCount, type |-> "GL_FLOAT",
                normalized |-> FALSE, stride |-> stride,
                pointer |-> nextOffset]>>
               \o vertexAttribPointers(
                    attributeDescs, index + 1, stride,
                    nextOffsetAfter(nextOffset, valueCount))
    ELSE <<>>

\* Shader::use()
useResult(this) ==
  LET stride == sizeofFloat * totalValueCount(this.mAttributeDescs, 0)
  IN  [this EXCEPT
         !.programInUse = TRUE,
         !.attribPointers =
           vertexAttribPointers(this.mAttributeDescs, 0, stride, 0)]

use ==
  /\ shader.state = "constructed"
  /\ shader' = useResult(shader)
  /\ UNCHANGED <<windowSize, mStateStack, textures, mRenderTarget,
                 mSharpBilinearRenderTarget, mPixelPerfectScaling, mAlphaMod,
                 pc, hist, frame, query>>

\* The names location() is called with, and what glGetUniformLocation
\* answers: a location, or -1 for a name that is no active uniform.
UniformNames == {"transform", "textureData", "colorModulation"}

UniformLocations == {-1, 0, 1}

\* Most calls of location() on one Shader.
MaxLocationCalls == 4

\* location() asking the driver on every call.
locationUncached(this, name, driverLocation) ==
  [this EXCEPT
     !.mLocationCache =
       [n \in DOMAIN this.mLocationCache \cup {name} |->
          IF n = name THEN driverLocation ELSE this.mLocationCache[n]],
     !.uniformQueries =
       Append(@, [name |-> name, location |-> driverLocation]),
     !.locationCalls =
       Append(@, [name |-> name, result |-> driverLocation])]

\* Shader::location(name), driverLocation being what glGetUniformLocation
\* answers if it is asked.
locationResult(this, name, driverLocation) ==
  IF name \notin DOMAIN this.mLocationCache
    THEN [this EXCEPT
            !.mLocationCache =
              [n \in DOMAIN this.mLocationCache \cup {name} |->
                 IF n = name THEN driverLocation
                 ELSE this.mLocationCache[n]],
            !.uniformQueries =
              Append(@, [name |-> name, location |-> driverLocation]),
            !.locationCalls =
              Append(@, [name |-> name, result |-> driverLocation])]
    ELSE [this EXCEPT
            !.locationCalls =
              Append(@, [name |-> name,
                         result |-> this.mLocationCache[name]])]

location(name) ==
  /\ shader.state = "constructed"
  /\ Len(shader.locationCalls) < MaxLocationCalls
  /\ \E driverLocation \in UniformLocations :
       shader' = locationResult(shader, name, driverLocation)
  /\ UNCHANGED <<windowSize, mStateStack, textures, mRenderTarget,
                 mSharpBilinearRenderTarget, mPixelPerfectScaling, mAlphaMod,
                 pc, hist, frame, query>>

InitShader ==
  Constructed(Size(1920, 1080), [mPerElementUpscalingEnabled |-> TRUE,
                                 mWidescreenModeOn |-> FALSE,
                                 mUpscalingFilter |-> "Bilinear"])

NextShader ==
  \/ constructShader
  \/ use
  \/ \E name \in UniformNames : location(name)

SpecShader == InitShader /\ [][NextShader]_vars

\* The message of a compilation failure and of a link failure, given what
\* the driver reported: the fixed fallback without an info log, the
\* driver's text otherwise.
CompilationErrorMessage(outcome) ==
  IF outcome.infoLogSize = 0
    THEN "Shader compilation failed, but could not get info log"
    ELSE "Shader compilation failed:\n\n" \o outcome.infoLog

LinkErrorMessage(outcome) ==
  IF outcome.infoLogSize = 0
    THEN "Shader program linking failed, but could not get info log"
    ELSE "Shader program linking failed:\n\n" \o outcome.infoLog

FailedOutcomes == {outcome \in GlOutcomes : ~outcome.status}

CompilationErrorMessages ==
  {CompilationErrorMessage(outcome) : outcome \in FailedOutcomes}

LinkErrorMessages ==
  {LinkErrorMessage(outcome) : outcome \in FailedOutcomes}

GlCalled(call) == \E i \in DOMAIN shader.glCalls : shader.glCalls[i] = call

RECURSIVE ValueCountOfFirst(_, _)
ValueCountOfFirst(attributeDescs, n) ==
  IF n = 0 THEN 0
  ELSE attributeDescs[n].mValueCount + ValueCountOfFirst(attributeDescs, n - 1)

\* C19: use() binds the vertex attributes in descriptor order with one
\* stride: for descriptors d[0..n-1], attribute i is bound at index i (the
\* index the constructor bound d[i]'s name to) with byte offset
\* sizeof(float) x the sum of d[j].valueCount for j < i, and every attribute
\* gets stride sizeof(float) x the sum of all value counts; for
\* [{pos,2},{uv,2}] the stride is 4 x sizeof(float) and the offset of uv is
\* 2 x sizeof(float).
C19_AttributeLayout ==
  (shader.state = "constructed" /\ shader.programInUse)
  => LET d == shader.mAttributeDescs
         n == Len(d)
         p == shader.attribPointers
     IN  /\ Len(p) = n
         /\ Len(shader.attribLocations) = n
         /\ \A i \in 0..(n - 1) :
              /\ p[i + 1].index = i
              /\ shader.attribLocations[i + 1]
                   = [index |-> i, name |-> d[i + 1].mName]
              /\ p[i + 1].size = d[i + 1].mValueCount
              /\ p[i + 1].pointer = 4 * ValueCountOfFirst(d, i)
              /\ p[i + 1].stride = 4 * ValueCountOfFirst(d, n)
         /\ d = <<AttributeDescription("pos", 2),
                  AttributeDescription("uv", 2)>>
              => /\ p[1].stride = 4 * 4
                 /\ p[2].stride = 4 * 4
                 /\ p[2].pointer = 2 * 4

C19_Witness ==
  /\ shader.state = "constructed"
  /\ shader.programInUse
  /\ shader.mAttributeDescs
       = <<AttributeDescription("pos", 2), AttributeDescription("uv", 2)>>
  /\ shader.attribPointers[2].index = 1
  /\ shader.attribPointers[2].pointer = 8
  /\ shader.attribPointers[2].stride = 16

\* Every name was asked of the driver at most once, and every call of
\* location() returned what the driver answered for its name.
LocationsAreFirstAnswers ==
  /\ \A i, j \in DOMAIN shader.uniformQueries :
       shader.uniformQueries[i].name = shader.uniformQueries[j].name => i = j
  /\ \A k \in DOMAIN shader.locationCalls :
       \E i \in DOMAIN shader.uniformQueries :
         /\ shader.uniformQueries[i].name = shader.locationCalls[k].name
         /\ shader.uniformQueries[i].location = shader.locationCalls[k].result

\* A call of location() asks the driver exactly if its name was not asked
\* for by an earlier call.
QueryOnFirstCallOnly ==
  Len(shader'.locationCalls) = Len(shader.locationCalls) + 1
  => LET name == shader'.locationCalls[Len(shader'.locationCalls)].name
         calledBefore ==
           \E k \in DOMAIN shader.locationCalls :
             shader.locationCalls[k].name = name
     IN  IF calledBefore
           THEN shader'.uniformQueries = shader.uniformQueries
           ELSE /\ Len(shader'.uniformQueries)
                     = Len(shader.uniformQueries) + 1
                /\ shader'.uniformQueries[Len(shader'.uniformQueries)].name
                     = name

LocationCacheKept ==
  \A name \in DOMAIN shader.mLocationCache :
    /\ name \in DOMAIN shader'.mLocationCache
    /\ shader'.mLocationCache[name] = shader.mLocationCache[name]

\* C20: for any sequence of location(name) calls on one Shader the uniform
\* location is asked of the driver at most once per name, on the first call
\* for that name; every later call for the name returns the value of that
\* first query, a not-found result included; and a cache entry is never
\* removed or changed.
C20_LocationMemoized ==
  [][shader.state = "constructed"
       => /\ LocationsAreFirstAnswers'
          /\ QueryOnFirstCallOnly
          /\ LocationCacheKept]_vars

\* Three calls for one name that the driver does not know: one query.
C20_Witness ==
  /\ shader.state = "constructed"
  /\ shader.locationCalls
       = <<[name |-> "transform", result |-> -1],
           [name |-> "transform", result |-> -1],
           [name |-> "transform", result |-> -1]>>
  /\ shader.uniformQueries = <<[name |-> "transform", location |-> -1]>>
  /\ shader.mLocationCache["transform"] = -1

(***************************************************************************)
(* The compositing paths of present over the display window sizes          *)
(***************************************************************************)
InitPresent ==
  \E win \in WindowSizes \cup DisplayWindowSizes, options \in GameOptions :
    Constructed(win, options)

NextPresent ==
  \/ \E options \in GameOptions : updateConfiguration(options)
  \/ \E isWidescreenFrame \in BOOLEAN, perElementUpscaling \in BOOLEAN :
       present(isWidescreenFrame, perElementUpscaling)
  \/ \E size \in WindowSizes : resizeWindow(size)

SpecPresent == InitPresent /\ [][NextPresent]_vars

\* The draw call that composites onto the window: the last one of the frame.
Composite == frame.passes[Len(frame.passes)]

FVec2(x, y) == Vec2(FromInt(x), FromInt(y))

SharpBilinearPasses ==
  LET sharp == textures[mSharpBilinearRenderTarget]
      s == FMin(FDiv(FromInt(windowSize.width), FromInt(sharp.width)),
                FDiv(FromInt(windowSize.height), FromInt(sharp.height)))
  IN  /\ Len(frame.passes) = 2
      /\ frame.passes[1].texture = mRenderTarget
      /\ frame.passes[1].target = mSharpBilinearRenderTarget
      /\ frame.passes[1].scale = FVec2(5, 6)
      /\ frame.passes[2].texture = mSharpBilinearRenderTarget
      /\ frame.passes[2].target = Screen
      /\ frame.passes[2].scale = Vec2(s, s)

\* The translation that centres width x height pixels of the intermediate
\* target, scaled by scale, in the window, and the image inside the window.
CentredInWindow(width, height, scale, translation) ==
  LET scaledWidth == FMul(FromInt(width), scale.x)
      scaledHeight == FMul(FromInt(height), scale.y)
  IN  /\ translation.x
           = FToInt(FHalf(FSub(FromInt(windowSize.width), scaledWidth)))
      /\ translation.y
           = FToInt(FHalf(FSub(FromInt(windowSize.height), scaledHeight)))
      /\ translation.x >= 0
      /\ translation.y >= 0
      /\ translation.x + round(scaledWidth) <= windowSize.width
      /\ translation.y + round(scaledHeight) <= windowSize.height

\* C22 as stated: in SharpBilinear mode present runs two passes in order,
\* the main target into the intermediate target at scale (5,6), then the
\* intermediate target onto the window at the uniform scale
\* s = min(W / intermediateWidth, H / intermediateHeight), centred; the
\* scaled image never exceeds the window in either axis (translation
\* components >= 0), for widescreen and non-widescreen frames alike.
C22_IntermediateTargetCentred ==
  (hist.op = "present" /\ frame.path = "SharpBilinear")
  => /\ SharpBilinearPasses
     /\ CentredInWindow(textures[mSharpBilinearRenderTarget].width,
                        textures[mSharpBilinearRenderTarget].height,
                        Composite.scale, Composite.translation)

\* C22, amended: in SharpBilinear mode present runs the two passes in that
\* order and at those scales; the second pass centres the used width of the
\* intermediate target, its whole width for a widescreen frame and
\* 5 x 320 = 1600 otherwise, and its height; the translation components are
\* >= 0 and that part of the scaled image lies inside the window, for both
\* kinds of frame.
C22_UsedWidthCentred ==
  (hist.op = "present" /\ frame.path = "SharpBilinear")
  => /\ SharpBilinearPasses
     /\ CentredInWindow(IF frame.isWidescreenFrame
                          THEN textures[mSharpBilinearRenderTarget].width
                          ELSE 5 * 320,
                        textures[mSharpBilinearRenderTarget].height,
                        Composite.scale, Composite.translation)

\* A frame that is not widescreen at 1920x1080 with widescreen mode on:
\* the intermediate target is wider than 1600 pixels and 1600 of them,
\* scaled by 0.9, are centred.
C22_Witness ==
  /\ hist.op = "present"
  /\ frame.path = "SharpBilinear"
  /\ ~frame.isWidescreenFrame
  /\ windowSize = Size(1920, 1080)
  /\ hist.optionsWindow = windowSize
  /\ textures[mSharpBilinearRenderTarget].width > 1600
  /\ Composite.scale.x = FDiv(FromInt(9), FromInt(10))
  /\ Composite.translation = Vec2(240, 0)

\* C23: in Bilinear mode present composites the main target at the scale of
\* determineViewPort, and only the horizontal offset depends on the kind of
\* frame: the horizontal translation is determineWidescreenViewPort's
\* mLeftPaddingPx for a widescreen frame and the viewport's offset.x
\* otherwise, while the vertical translation is the viewport's offset.y for
\* both kinds of frame.
C23_BilinearViewPort ==
  (hist.op = "present" /\ frame.path = "Bilinear")
  => LET info == determineViewPort(windowSize)
     IN  /\ Len(frame.passes) = 1
         /\ Composite.texture = mRenderTarget
         /\ Composite.scale = info.mScale
         /\ Composite.translation.x
              = IF frame.isWidescreenFrame
                  THEN determineWidescreenViewPort(windowSize).mLeftPaddingPx
                  ELSE info.mOffset.x
         /\ Composite.translation.y = info.mOffset.y

=============================================================================
